---- MODULE Spec2Model ----
(***************************************************************************)
(* The Airthings client of src/airthings/__init__.py: the cached bearer    *)
(* token, the location/device catalog, update_devices, _request and        *)
(* get_token, as a state machine whose steps are the network operations    *)
(* (the awaits) and the synchronous code between them.                     *)
(***************************************************************************)
EXTENDS Integers, Sequences, FiniteSets, TLC

\* ------------------------------------------------------------------ bounds

\* Longest locations list the server returns.
MaxLocations == 2

\* Largest retry budget concurrent callers of _request pass.
MaxConcurrentRetry == 1

\* ------------------------------------------------------- program constants

\* _request(self, url, json_data=None, retry=3)
DefaultRetry == 3
\* get_token(websession, client_id, secret, retry=3, timeout=10)
TokenRetry == 3

\* ------------------------------------------------------------- the universe

None == "None"
Tokens == {"tokA", "tokB"}
Tasks == {1, 2}
\* The invocations of the sequential specification: one caller at a time.
SeqTasks == {1}

DeviceIds == {"dev1", "dev2"}
Readings == {21}
StatusOK == 200
StatusRateLimit == 429
OtherStatuses == {500}

\* One entry of the locations endpoint's "locations" list; "" is an empty id.
LocationPool ==
    { [id |-> "", name |-> "Attic"],
      [id |-> "loc1", name |-> "Home"],
      [id |-> "loc2", name |-> "Office"] }

\* One entry of the devices endpoint's "devices" list.
Descriptor(d) ==
    [id |-> d,
     deviceType |-> IF d = "dev1" THEN "WAVE_PLUS" ELSE "WAVE_MINI",
     productName |-> IF d = "dev1" THEN "Wave Plus" ELSE "Wave Mini"]

\* One entry of a latest-samples "devices" list.
SampleEntry(d, v) ==
    [id |-> d,
     segment |-> [name |-> IF d = "dev1" THEN "Bedroom" ELSE "Cellar", isActive |-> TRUE],
     data |-> v]

\* The lists without repetition over S of length at most n.
RECURSIVE ListsOver(_, _)
ListsOver(S, n) ==
    IF n = 0 THEN {<<>>}
    ELSE LET shorter == ListsOver(S, n - 1)
             full == { s \in shorter : Len(s) = n - 1 }
         IN shorter \cup
            { Append(q[1], q[2]) :
                q \in { p \in full \X S : \A i \in 1..Len(p[1]) : p[1][i] # p[2] } }

\* The elements of a set of device ids as a list, "dev1" first.
ListOf(S) ==
    (IF "dev1" \in S THEN <<"dev1">> ELSE <<>>) \o (IF "dev2" \in S THEN <<"dev2">> ELSE <<>>)

EmptyMap == [x \in {} |-> x]
\* Put keeping the value a key already has.
PutIfAbsent(m, k, v) == [x \in DOMAIN m \cup {k} |-> IF x \in DOMAIN m THEN m[x] ELSE v]
Put(m, k, v) == [x \in DOMAIN m \cup {k} |-> IF x = k THEN v ELSE m[x]]

\* --------------------------------------------------------- server answers

NoJson == [null |-> TRUE, locations |-> <<>>, hasDevices |-> FALSE, devices |-> <<>>]

\* The JSON bodies a 200 answer of each endpoint may carry.
JsonBodies(url) ==
    IF url = "locations"
    THEN { [NoJson EXCEPT !.null = FALSE, !.locations = l] :
             l \in ListsOver(LocationPool, MaxLocations) }
    ELSE IF url = "devices"
    THEN { [NoJson EXCEPT !.null = FALSE, !.hasDevices = TRUE,
                          !.devices = [i \in 1..Len(ListOf(S)) |-> Descriptor(ListOf(S)[i])]] :
             S \in SUBSET DeviceIds }
    ELSE {NoJson, [NoJson EXCEPT !.null = FALSE]}
         \cup { [NoJson EXCEPT !.null = FALSE, !.hasDevices = TRUE,
                               !.devices = [i \in 1..Len(ListOf(S)) |-> SampleEntry(ListOf(S)[i], v)]] :
                  S \in SUBSET DeviceIds, v \in Readings }

\* What one data request (websession.get) ends in.
DataOutcomes(url) ==
    { [kind |-> k, status |-> 0, json |-> NoJson] : k \in {"ClientError", "Timeout"} }
    \cup { [kind |-> "response", status |-> s, json |-> NoJson] :
             s \in OtherStatuses \cup {StatusRateLimit} }
    \cup { [kind |-> "response", status |-> StatusOK, json |-> j] : j \in JsonBodies(url) }

\* What one token request (websession.post to the token endpoint) ends in.
TokenOutcomes ==
    { [kind |-> k, status |-> 0, access_token |-> None] : k \in {"ClientError", "Timeout"} }
    \cup { [kind |-> "response", status |-> s, access_token |-> None] : s \in OtherStatuses }
    \cup { [kind |-> "response", status |-> StatusOK, access_token |-> a] :
             a \in Tokens \cup {None} }

NoResponse == [isNone |-> TRUE, status |-> 0, json |-> NoJson]

\* ------------------------------------------------------- the data classes

\* AirthingsLocation.init_from_response
LocationFromResponse(response) == [location_id |-> response.id, name |-> response.name]

\* dict.get on the descriptor cache: None when the key is missing.
DictGet(cache, id) ==
    IF id \in DOMAIN cache
    THEN [isNone |-> FALSE, deviceType |-> cache[id].deviceType,
          productName |-> cache[id].productName]
    ELSE [isNone |-> TRUE, deviceType |-> None, productName |-> None]

\* AirthingsDevice.init_from_response raises AttributeError on device.get
\* when device is None.
DeviceRaises(device) == device.isNone

\* AirthingsDevice.init_from_response, when it does not raise.
DeviceFromResponse(response, location_name, device) ==
    [device_id |-> response.id,
     name |-> response.segment.name,
     sensors |-> response.data,
     is_active |-> response.segment.isActive,
     location_name |-> location_name,
     device_type |-> device.deviceType,
     product_name |-> device.productName]

\* The loop over json_data.get("locations") that rebuilds self._locations.
LocationsFrom(entries) == [i \in 1..Len(entries) |-> LocationFromResponse(entries[i])]

\* The loop over json_data.get("devices") that rebuilds self._devices.
RECURSIVE DevicesFrom(_, _, _)
DevicesFrom(entries, i, cache) ==
    IF i > Len(entries) THEN cache
    ELSE DevicesFrom(entries, i + 1, Put(cache, entries[i].id, entries[i]))

\* The loop over a location's sample entries: res[id] = Device, or the
\* exception of the first entry whose construction raises.
RECURSIVE MergeDevices(_, _, _, _, _)
MergeDevices(entries, i, res, location_name, cache) ==
    IF i > Len(entries) THEN [raised |-> FALSE, res |-> res]
    ELSE LET device == DictGet(cache, entries[i].id)
         IN IF DeviceRaises(device)
            THEN [raised |-> TRUE, res |-> res]
            ELSE MergeDevices(entries, i + 1,
                              Put(res, entries[i].id,
                                  DeviceFromResponse(entries[i], location_name, device)),
                              location_name, cache)

\* NoToken acquiring a token on every call, cached or not.
NoTokenAlways(token) == TRUE

\* NoToken taking every cached value, None included, for a token.
NoTokenNever(token) == FALSE

\* if self._access_token is None
NoToken(token) == token = None

\* NoTokenAcquired sending the data request whatever get_token returned.
NoTokenAcquiredNever(token) == FALSE

\* get_token returned: if self._access_token is None: return None
NoTokenAcquired(token) == token = None

\* NotLocations fetching the locations on every update.
NotLocationsAlways(locs) == TRUE

\* NotLocations never fetching the locations.
NotLocationsNever(locs) == FALSE

\* if not self._locations
NotLocations(locs) == Len(locs) = 0

\* NotDevices never fetching the devices.
NotDevicesNever(cache) == FALSE

\* if not self._devices
NotDevices(cache) == DOMAIN cache = {}

\* NotLocationId taking every id for a usable one.
NotLocationIdNever(id) == FALSE

\* if not location.location_id
NotLocationId(id) == id = ""

\* RequestStep giving a timeout one retry fewer.
RequestStepShortTimeout(kind, status, retry) ==
    IF kind = "ClientError" THEN [next |-> "raise", clear |-> TRUE]
    ELSE IF kind = "Timeout"
    THEN IF retry > 1 THEN [next |-> "retry", clear |-> TRUE]
         ELSE [next |-> "raise", clear |-> TRUE]
    ELSE IF status # StatusOK
    THEN IF retry > 0 /\ status # StatusRateLimit THEN [next |-> "retry", clear |-> TRUE]
         ELSE [next |-> "raise", clear |-> FALSE]
    ELSE [next |-> "return", clear |-> FALSE]

\* RequestStep retrying a rejected request with the cached token kept.
RequestStepKeepToken(kind, status, retry) ==
    IF kind = "ClientError" THEN [next |-> "raise", clear |-> TRUE]
    ELSE IF kind = "Timeout"
    THEN IF retry > 0 THEN [next |-> "retry", clear |-> TRUE]
         ELSE [next |-> "raise", clear |-> TRUE]
    ELSE IF status # StatusOK
    THEN IF retry > 0 /\ status # StatusRateLimit THEN [next |-> "retry", clear |-> FALSE]
         ELSE [next |-> "raise", clear |-> FALSE]
    ELSE [next |-> "return", clear |-> FALSE]

\* RequestStep retrying a 429 like any other status.
RequestStepRetry429(kind, status, retry) ==
    IF kind = "ClientError" THEN [next |-> "raise", clear |-> TRUE]
    ELSE IF kind = "Timeout"
    THEN IF retry > 0 THEN [next |-> "retry", clear |-> TRUE]
         ELSE [next |-> "raise", clear |-> TRUE]
    ELSE IF status # StatusOK
    THEN IF retry > 0 THEN [next |-> "retry", clear |-> TRUE]
         ELSE [next |-> "raise", clear |-> FALSE]
    ELSE [next |-> "return", clear |-> FALSE]

\* RequestStep keeping the cached token when the last timeout raises.
RequestStepTimeoutKeeps(kind, status, retry) ==
    IF kind = "ClientError" THEN [next |-> "raise", clear |-> TRUE]
    ELSE IF kind = "Timeout"
    THEN IF retry > 0 THEN [next |-> "retry", clear |-> TRUE]
         ELSE [next |-> "raise", clear |-> FALSE]
    ELSE IF status # StatusOK
    THEN IF retry > 0 /\ status # StatusRateLimit THEN [next |-> "retry", clear |-> TRUE]
         ELSE [next |-> "raise", clear |-> FALSE]
    ELSE [next |-> "return", clear |-> FALSE]

\* RequestStep retrying a transport error while budget remains.
RequestStepRetryClientError(kind, status, retry) ==
    IF kind \in {"ClientError", "Timeout"}
    THEN IF retry > 0 THEN [next |-> "retry", clear |-> TRUE]
         ELSE [next |-> "raise", clear |-> TRUE]
    ELSE IF status # StatusOK
    THEN IF retry > 0 /\ status # StatusRateLimit THEN [next |-> "retry", clear |-> TRUE]
         ELSE [next |-> "raise", clear |-> FALSE]
    ELSE [next |-> "return", clear |-> FALSE]

\* RequestStep retrying a timeout once more when the budget is spent.
RequestStepTimeoutExtra(kind, status, retry) ==
    IF kind = "ClientError" THEN [next |-> "raise", clear |-> TRUE]
    ELSE IF kind = "Timeout"
    THEN IF retry >= 0 THEN [next |-> "retry", clear |-> TRUE]
         ELSE [next |-> "raise", clear |-> TRUE]
    ELSE IF status # StatusOK
    THEN IF retry > 0 /\ status # StatusRateLimit THEN [next |-> "retry", clear |-> TRUE]
         ELSE [next |-> "raise", clear |-> FALSE]
    ELSE [next |-> "return", clear |-> FALSE]

\* What _request does with the outcome of its data request at budget retry:
\* return the response, call itself again, or raise AirthingsError; and
\* whether it sets self._access_token = None first.
RequestStep(kind, status, retry) ==
    IF kind = "ClientError" THEN [next |-> "raise", clear |-> TRUE]
    ELSE IF kind = "Timeout"
    THEN IF retry > 0 THEN [next |-> "retry", clear |-> TRUE]
         ELSE [next |-> "raise", clear |-> TRUE]
    ELSE IF status # StatusOK
    THEN IF retry > 0 /\ status # StatusRateLimit THEN [next |-> "retry", clear |-> TRUE]
         ELSE [next |-> "raise", clear |-> FALSE]
    ELSE [next |-> "return", clear |-> FALSE]

\* TokenStep retrying a rejection while budget remains.
TokenStepRetryRejected(kind, status, retry) ==
    IF kind = "ClientError"
    THEN IF retry > 0 THEN "retry" ELSE "AirthingsConnectionError"
    ELSE IF kind = "Timeout"
    THEN IF retry > 0 THEN "retry" ELSE "AirthingsConnectionError"
    ELSE IF status # StatusOK THEN IF retry > 0 THEN "retry" ELSE "AirthingsAuthError"
    ELSE "return"

\* TokenStep giving a timeout one retry more than a transport error.
TokenStepLongTimeout(kind, status, retry) ==
    IF kind = "ClientError"
    THEN IF retry > 0 THEN "retry" ELSE "AirthingsConnectionError"
    ELSE IF kind = "Timeout"
    THEN IF retry >= 0 THEN "retry" ELSE "AirthingsConnectionError"
    ELSE IF status # StatusOK THEN "AirthingsAuthError"
    ELSE "return"

\* What get_token does with the outcome of its token request at budget
\* retry: call itself again, raise, or return the body's access_token.
TokenStep(kind, status, retry) ==
    IF kind = "ClientError"
    THEN IF retry > 0 THEN "retry" ELSE "AirthingsConnectionError"
    ELSE IF kind = "Timeout"
    THEN IF retry > 0 THEN "retry" ELSE "AirthingsConnectionError"
    ELSE IF status # StatusOK THEN "AirthingsAuthError"
    ELSE "return"

\* Where update_devices continues when _request(url) returns.
ReturnPc(url) ==
    IF url = "locations" THEN "L91"
    ELSE IF url = "devices" THEN "L97"
    ELSE IF url = "samples" THEN "L108"
    ELSE "idle"

\* ------------------------------------------------------------------- state

VARIABLES
    access_token,   \* self._access_token, None or a token
    locations,      \* self._locations
    devices,        \* self._devices
    call,           \* per invocation: the position and the locals
    obs,            \* per invocation: what an observer of the calls has seen
    env             \* fixed per behaviour: what the observer records

vars == <<access_token, locations, devices, call, obs, env>>

InitCall ==
    [pc |-> "idle", url |-> "locations", retry |-> DefaultRetry, tretry |-> TokenRetry,
     hdr |-> None, iter |-> <<>>, li |-> 1, res |-> EmptyMap, response |-> NoResponse]

NoRequest == [firstOk |-> FALSE, token |-> None]
NoAnswer == [kind |-> "none", status |-> 0]

InitObs ==
    [result |-> "none",         \* how the last update_devices ended
     prevReturned |-> FALSE,    \* whether the one before returned a mapping
     startLocEmpty |-> TRUE,    \* self._locations was empty when this one began
     startDevEmpty |-> TRUE,    \* self._devices was empty when this one began
     locFetches |-> 0,          \* _request calls for the locations in this update
     devFetches |-> 0,          \* _request calls for the devices in this update
     asked |-> <<>>,            \* location ids whose samples were requested
     failed |-> {},             \* those whose request gave None or a null body
     reported |-> {},           \* device ids reported by the other locations
     missed |-> {},             \* reported ids missing from the descriptor cache
     lastFrom |-> EmptyMap,     \* per merged id, the name of the last location reporting it
     twice |-> {},              \* merged ids reported by more than one location
     prevIds |-> {},            \* the ids of the mapping the update before returned
     reqResult |-> "none",      \* how the current/last _request call ended
     \* the rest is recorded when env.watch = "request"
     budget |-> 0,              \* the retry argument of the call
     startCached |-> FALSE,     \* whether a token was cached when it began
     dataSent |-> 0,            \* data requests it sent
     timeouts |-> 0,            \* those that timed out
     rejects |-> 0,             \* those answered by a status other than 200, 429
     lastData |-> NoAnswer,     \* how its last answered data request ended
     tokenCalls |-> 0,          \* get_token calls it made
     issued |-> None,           \* what its last get_token call returned
     tokenPosts |-> 0,          \* token requests sent by its last get_token call
     tokFails |-> 0,            \* those that ended in a transport error or timeout
     tokKinds |-> {},           \* the kinds of failure among them
     lastTok |-> NoAnswer,      \* how its last answered token request ended
     tokResult |-> "none",      \* how its last get_token call ended
     prevReq |-> NoRequest,     \* the _request call before: 200 at once, its token
     \* recorded when env.watch = "concurrent"
     granted |-> {}]            \* the tokens get_token has returned to this caller

\* What the observer keeps of a record after a step of _request: the
\* per-request detail only when it watches the requests; the get_token calls
\* of the current request and the tokens granted when it watches concurrent
\* updates; the tokens granted alone when it watches concurrent requests.
Keep(o) ==
    LET r == [o EXCEPT !.budget = 0, !.startCached = FALSE, !.dataSent = 0, !.timeouts = 0,
                       !.rejects = 0, !.lastData = NoAnswer, !.issued = None,
                       !.tokenPosts = 0, !.tokFails = 0, !.tokKinds = {},
                       !.lastTok = NoAnswer, !.tokResult = "none", !.prevReq = NoRequest]
    IN IF env.watch = "request" THEN [o EXCEPT !.granted = {}]
       ELSE IF env.watch = "update" THEN [r EXCEPT !.tokenCalls = 0, !.granted = {}]
       ELSE IF env.watch = "concurrent" THEN r
       ELSE [r EXCEPT !.tokenCalls = 0, !.reqResult = "none", !.result = "none"]

\* What the observer keeps of a record after a step of update_devices: the
\* detail of the loop only when it watches one caller.
KeepUpdate(o) ==
    IF env.watch \in {"update", "request"} THEN o
    ELSE [o EXCEPT !.prevReturned = FALSE, !.startDevEmpty = TRUE, !.asked = <<>>,
                   !.failed = {}, !.reported = {}, !.missed = {}, !.lastFrom = EmptyMap,
                   !.twice = {}, !.prevIds = {}]

InitClient ==
    /\ access_token = None
    /\ locations = <<>>
    /\ devices = EmptyMap
    /\ call = [t \in Tasks |-> InitCall]
    /\ obs = [t \in Tasks |-> InitObs]

\* Airthings.__init__, the observer watching the updates.
Init == InitClient /\ env = [watch |-> "update"]

\* Airthings.__init__, the observer watching the requests.
InitRequest == InitClient /\ env = [watch |-> "request"]

\* Airthings.__init__, the observer watching concurrent callers.
InitConcurrent == InitClient /\ env = [watch |-> "concurrent"]

\* Airthings.__init__, the observer watching the tokens of concurrent requests.
InitTokens == InitClient /\ env = [watch |-> "tokens"]

\* ----------------------------------------------------------------- helpers

\* A call self._request(url, retry=retry).
CallRequest(c, url, retry) == [c EXCEPT !.pc = "L127", !.url = url, !.retry = retry]

\* The observer's record of a new _request call.
BeginRequest(o, c, retry) ==
    Keep([o EXCEPT !.prevReq = [firstOk |-> o.reqResult = "response" /\ o.dataSent = 1,
                                token |-> IF o.reqResult = "response" /\ o.dataSent = 1
                                          THEN c.hdr ELSE None],
                   !.reqResult = "pending", !.budget = retry,
                   !.startCached = (access_token # None),
                   !.dataSent = 0, !.timeouts = 0, !.rejects = 0, !.lastData = NoAnswer,
                   !.tokenCalls = 0, !.issued = None, !.tokenPosts = 0, !.tokFails = 0,
                   !.tokKinds = {}, !.lastTok = NoAnswer, !.tokResult = "none"])

\* res = {} and the start of: for location in self._locations
EnterLoop(c) == [c EXCEPT !.pc = "L102", !.iter = locations, !.li = 1, !.res = EmptyMap]

\* Raised with the exception swallowed and the loop continued.
RaisedContinues(c) == [c EXCEPT !.pc = "L102", !.li = c.li + 1]

\* An exception leaves _request and update_devices, which catches nothing.
Raised(c) == [c EXCEPT !.pc = "idle"]

\* ----------------------------------------------------------------- actions

\* The caller awaits update_devices().
UpdateDevices(t) ==
    /\ call[t].pc = "idle"
    /\ call' = [call EXCEPT ![t].pc = "L89"]
    /\ obs' = [obs EXCEPT ![t] = KeepUpdate(
                 [obs[t] EXCEPT !.result = "pending",
                                !.prevReturned = (obs[t].result = "returned"),
                                !.startLocEmpty = (Len(locations) = 0),
                                !.startDevEmpty = (DOMAIN devices = {}),
                                !.locFetches = 0, !.devFetches = 0, !.asked = <<>>,
                                !.failed = {}, !.reported = {}, !.missed = {},
                                !.lastFrom = EmptyMap, !.twice = {},
                                !.prevIds = IF obs[t].result = "returned"
                                            THEN DOMAIN call[t].res ELSE {}])]
    /\ UNCHANGED <<access_token, locations, devices, env>>

\* if not self._locations: response = await self._request(API_URL + "locations")
CheckLocations(t) ==
    /\ call[t].pc = "L89"
    /\ IF NotLocations(locations)
       THEN /\ call' = [call EXCEPT ![t] = CallRequest(call[t], "locations", DefaultRetry)]
            /\ obs' = [obs EXCEPT ![t] =
                         [BeginRequest(obs[t], call[t], DefaultRetry) EXCEPT
                            !.locFetches = obs[t].locFetches + 1]]
       ELSE /\ call' = [call EXCEPT ![t].pc = "L95"]
            /\ UNCHANGED obs
    /\ UNCHANGED <<access_token, locations, devices, env>>

\* json_data = await response.json(); self._locations = [...]
StoreLocations(t) ==
    /\ call[t].pc = "L91"
    /\ IF call[t].response.isNone
       THEN /\ call' = [call EXCEPT ![t] = Raised(call[t])]
            /\ obs' = [obs EXCEPT ![t].result = "AttributeError"]
            /\ UNCHANGED locations
       ELSE /\ locations' = LocationsFrom(call[t].response.json.locations)
            /\ call' = [call EXCEPT ![t].pc = "L95"]
            /\ UNCHANGED obs
    /\ UNCHANGED <<access_token, devices, env>>

\* if not self._devices: response = await self._request(API_URL + "devices")
CheckDevices(t) ==
    /\ call[t].pc = "L95"
    /\ IF NotDevices(devices)
       THEN /\ call' = [call EXCEPT ![t] = CallRequest(call[t], "devices", DefaultRetry)]
            /\ obs' = [obs EXCEPT ![t] =
                         [BeginRequest(obs[t], call[t], DefaultRetry) EXCEPT
                            !.devFetches = obs[t].devFetches + 1]]
       ELSE /\ call' = [call EXCEPT ![t] = EnterLoop(call[t])]
            /\ UNCHANGED obs
    /\ UNCHANGED <<access_token, locations, devices, env>>

\* json_data = await response.json(); self._devices = {...}; res = {}
StoreDevices(t) ==
    /\ call[t].pc = "L97"
    /\ IF call[t].response.isNone
       THEN /\ call' = [call EXCEPT ![t] = Raised(call[t])]
            /\ obs' = [obs EXCEPT ![t].result = "AttributeError"]
            /\ UNCHANGED devices
       ELSE /\ devices' = DevicesFrom(call[t].response.json.devices, 1, EmptyMap)
            /\ call' = [call EXCEPT ![t] = EnterLoop(call[t])]
            /\ UNCHANGED obs
    /\ UNCHANGED <<access_token, locations, env>>

\* for location in self._locations: skip an empty id, else request its
\* latest samples; return res after the last one.
NextLocation(t) ==
    /\ call[t].pc = "L102"
    /\ IF call[t].li > Len(call[t].iter)
       THEN /\ call' = [call EXCEPT ![t].pc = "idle"]
            /\ obs' = [obs EXCEPT ![t].result = "returned"]
       ELSE IF NotLocationId(call[t].iter[call[t].li].location_id)
       THEN /\ call' = [call EXCEPT ![t].li = call[t].li + 1]
            /\ UNCHANGED obs
       ELSE /\ call' = [call EXCEPT ![t] = CallRequest(call[t], "samples", DefaultRetry)]
            /\ obs' = [obs EXCEPT ![t] = KeepUpdate(
                         [BeginRequest(obs[t], call[t], DefaultRetry) EXCEPT
                            !.asked = Append(obs[t].asked,
                                             call[t].iter[call[t].li].location_id)])]
    /\ UNCHANGED <<access_token, locations, devices, env>>

\* The body of the loop once _request has returned.
MergeSamples(t) ==
    LET c == call[t]
        o == obs[t]
        location == c.iter[c.li]
        json == c.response.json
        ids == { json.devices[i].id : i \in 1..Len(json.devices) }
        merged == MergeDevices(json.devices, 1, c.res, location.name, devices)
        continue == [c EXCEPT !.pc = "L102", !.li = c.li + 1]
    IN /\ c.pc = "L108"
       /\ IF c.response.isNone \/ json.null
          THEN /\ call' = [call EXCEPT ![t] = continue]
               /\ obs' = [obs EXCEPT ![t] =
                            KeepUpdate([o EXCEPT !.failed = o.failed \cup {location.location_id}])]
          ELSE IF ~json.hasDevices \/ Len(json.devices) = 0
          THEN /\ call' = [call EXCEPT ![t] = continue]
               /\ UNCHANGED obs
          ELSE /\ call' = [call EXCEPT ![t] =
                             IF merged.raised THEN Raised(c)
                             ELSE [continue EXCEPT !.res = merged.res]]
               /\ obs' = [obs EXCEPT ![t] = KeepUpdate(
                            [o EXCEPT
                               !.reported = o.reported \cup ids,
                               !.missed = o.missed \cup (ids \ DOMAIN devices),
                               !.lastFrom = IF merged.raised THEN o.lastFrom
                                            ELSE [d \in DOMAIN o.lastFrom \cup ids |->
                                                    IF d \in ids THEN location.name
                                                    ELSE o.lastFrom[d]],
                               !.twice = IF merged.raised THEN o.twice
                                         ELSE o.twice \cup (ids \cap DOMAIN o.lastFrom),
                               !.result = IF merged.raised THEN "AttributeError"
                                          ELSE o.result])]
       /\ UNCHANGED <<access_token, locations, devices, env>>

\* A caller awaits self._request(url, retry=retry) itself.
RequestCall(t) ==
    /\ call[t].pc = "idle"
    /\ \E retry \in 0..DefaultRetry :
         /\ call' = [call EXCEPT ![t] = CallRequest(call[t], "direct", retry)]
         /\ obs' = [obs EXCEPT ![t] = BeginRequest(obs[t], call[t], retry)]
    /\ UNCHANGED <<access_token, locations, devices, env>>

\* _request up to its first await: get_token when no token is cached, else
\* the data request with the cached token as Authorization.
RequestEnter(t) ==
    /\ call[t].pc = "L127"
    /\ IF NoToken(access_token)
       THEN /\ call' = [call EXCEPT ![t] = [call[t] EXCEPT !.pc = "L172", !.tretry = TokenRetry]]
            /\ obs' = [obs EXCEPT ![t] =
                         Keep([obs[t] EXCEPT !.tokenCalls = obs[t].tokenCalls + 1,
                                             !.tokenPosts = 1, !.tokFails = 0,
                                             !.tokKinds = {}, !.lastTok = NoAnswer,
                                             !.tokResult = "pending"])]
       ELSE /\ call' = [call EXCEPT ![t] = [call[t] EXCEPT !.pc = "L136", !.hdr = access_token]]
            /\ obs' = [obs EXCEPT ![t] = Keep([obs[t] EXCEPT !.dataSent = obs[t].dataSent + 1])]
    /\ UNCHANGED <<access_token, locations, devices, env>>

\* The token request ends: get_token retries, raises or returns, and on a
\* return _request stores the token and sends the data request, or returns
\* None when there is no token.
TokenResponse(t) ==
    /\ call[t].pc = "L172"
    /\ \E out \in TokenOutcomes :
         LET c == call[t]
             o == [obs[t] EXCEPT !.lastTok = [kind |-> out.kind, status |-> out.status]]
             f == [o EXCEPT !.tokFails = o.tokFails + 1,
                            !.tokKinds = o.tokKinds \cup {out.kind}]
             does == TokenStep(out.kind, out.status, c.tretry)
         IN IF does = "retry"
            THEN /\ call' = [call EXCEPT ![t].tretry = c.tretry - 1]
                 /\ obs' = [obs EXCEPT ![t] = Keep([f EXCEPT !.tokenPosts = f.tokenPosts + 1])]
                 /\ UNCHANGED access_token
            ELSE IF does = "AirthingsConnectionError"
            THEN /\ call' = [call EXCEPT ![t] = Raised(c)]
                 /\ obs' = [obs EXCEPT ![t] =
                              Keep([f EXCEPT !.tokResult = does, !.reqResult = does,
                                             !.result = does])]
                 /\ UNCHANGED access_token
            ELSE IF does = "AirthingsAuthError"
            THEN /\ call' = [call EXCEPT ![t] = Raised(c)]
                 /\ obs' = [obs EXCEPT ![t] =
                              Keep([o EXCEPT !.tokResult = does, !.reqResult = does,
                                             !.result = does])]
                 /\ UNCHANGED access_token
            ELSE /\ access_token' = out.access_token
                 /\ IF NoTokenAcquired(out.access_token)
                    THEN /\ call' = [call EXCEPT ![t] =
                                       [c EXCEPT !.pc = ReturnPc(c.url), !.response = NoResponse]]
                         /\ obs' = [obs EXCEPT ![t] =
                                      Keep([o EXCEPT !.tokResult = "returned",
                                                     !.issued = out.access_token,
                                                     !.reqResult = "null"])]
                    ELSE /\ call' = [call EXCEPT ![t] =
                                       [c EXCEPT !.pc = "L136", !.hdr = out.access_token]]
                         /\ obs' = [obs EXCEPT ![t] =
                                      Keep([o EXCEPT !.tokResult = "returned",
                                                     !.issued = out.access_token,
                                                     !.granted = o.granted \cup {out.access_token},
                                                     !.dataSent = o.dataSent + 1])]
    /\ UNCHANGED <<locations, devices, env>>

\* The data request ends: _request returns the 200 response, retries through
\* itself with the token cleared, or raises AirthingsError.
DataResponse(t) ==
    /\ call[t].pc = "L136"
    /\ \E out \in DataOutcomes(call[t].url) :
         LET c == call[t]
             o == [obs[t] EXCEPT
                     !.lastData = [kind |-> out.kind, status |-> out.status],
                     !.timeouts = IF out.kind = "Timeout" THEN @ + 1 ELSE @,
                     !.rejects = IF out.kind = "response"
                                    /\ out.status \notin {StatusOK, StatusRateLimit}
                                 THEN @ + 1 ELSE @]
             fails == [o EXCEPT !.reqResult = "AirthingsError", !.result = "AirthingsError"]
             again == [c EXCEPT !.pc = "L127", !.retry = c.retry - 1]
             does == RequestStep(out.kind, out.status, c.retry)
         IN /\ access_token' = IF does.clear THEN None ELSE access_token
            /\ IF does.next = "retry"
               THEN /\ call' = [call EXCEPT ![t] = again]
                    /\ obs' = [obs EXCEPT ![t] = Keep(o)]
               ELSE IF does.next = "raise"
               THEN /\ call' = [call EXCEPT ![t] = Raised(c)]
                    /\ obs' = [obs EXCEPT ![t] = Keep(fails)]
               ELSE /\ call' = [call EXCEPT ![t] =
                                  [c EXCEPT !.pc = ReturnPc(c.url),
                                            !.response = [isNone |-> FALSE,
                                                          status |-> out.status,
                                                          json |-> out.json]]]
                    /\ obs' = [obs EXCEPT ![t] = Keep([o EXCEPT !.reqResult = "response"])]
    /\ UNCHANGED <<locations, devices, env>>

\* ---------------------------------------------------------- specifications

\* update_devices called again and again by one caller.
Next ==
    \E t \in SeqTasks :
        \/ UpdateDevices(t)
        \/ CheckLocations(t)
        \/ StoreLocations(t)
        \/ CheckDevices(t)
        \/ StoreDevices(t)
        \/ NextLocation(t)
        \/ MergeSamples(t)
        \/ RequestEnter(t)
        \/ TokenResponse(t)
        \/ DataResponse(t)

Spec == Init /\ [][Next]_vars

\* _request called again and again by one caller, with any retry budget.
NextRequest ==
    \E t \in SeqTasks :
        \/ RequestCall(t)
        \/ RequestEnter(t)
        \/ TokenResponse(t)
        \/ DataResponse(t)

SpecRequest == InitRequest /\ [][NextRequest]_vars

\* The event loop runs a coroutine from one await to the next without
\* switching: t may step only when no other invocation is between awaits.
Alone(t) == \A u \in Tasks \ {t} : call[u].pc \in {"idle", "L172", "L136"}

\* The network operation t awaits succeeds: the token request gives a
\* token, the data request a 200 response.
Succeeds(t) ==
    /\ call[t].pc = "L172" => call'[t].pc = "L136"
    /\ call[t].pc = "L136" => call'[t].pc = ReturnPc(call[t].url)

\* The body of a server with one location and one device in it.
SteadyBody(url) ==
    IF url = "locations"
    THEN [NoJson EXCEPT !.null = FALSE, !.locations = <<[id |-> "loc1", name |-> "Home"]>>]
    ELSE IF url = "devices"
    THEN [NoJson EXCEPT !.null = FALSE, !.hasDevices = TRUE,
                        !.devices = <<Descriptor("dev1")>>]
    ELSE [NoJson EXCEPT !.null = FALSE, !.hasDevices = TRUE,
                        !.devices = <<SampleEntry("dev1", CHOOSE v \in Readings : TRUE)>>]

\* The data request t awaits is answered, if by 200, with that body.
SteadyServer(t) ==
    call[t].pc = "L136"
    => call'[t].response.isNone \/ call'[t].response.json = SteadyBody(call[t].url)

\* update_devices called by two callers on one client, interleaved at the
\* awaits, every network operation succeeding.
NextConcurrent ==
    \E t \in Tasks :
        \/ Alone(t) /\ UpdateDevices(t)
        \/ Alone(t) /\ CheckLocations(t)
        \/ Alone(t) /\ StoreLocations(t)
        \/ Alone(t) /\ CheckDevices(t)
        \/ Alone(t) /\ StoreDevices(t)
        \/ Alone(t) /\ NextLocation(t)
        \/ Alone(t) /\ MergeSamples(t)
        \/ Alone(t) /\ RequestEnter(t)
        \/ Alone(t) /\ TokenResponse(t) /\ Succeeds(t)
        \/ Alone(t) /\ DataResponse(t) /\ Succeeds(t) /\ SteadyServer(t)

SpecConcurrent == InitConcurrent /\ [][NextConcurrent]_vars

\* _request called by two callers on one client, interleaved at the awaits,
\* the network operations ending in any way.
NextConcurrentRequest ==
    \E t \in Tasks :
        \/ Alone(t) /\ RequestCall(t) /\ call'[t].retry <= MaxConcurrentRetry
        \/ Alone(t) /\ RequestEnter(t)
        \/ Alone(t) /\ TokenResponse(t)
        \/ Alone(t) /\ DataResponse(t) /\ SteadyServer(t)

SpecConcurrentRequest == InitTokens /\ [][NextConcurrentRequest]_vars

\* ------------------------------------------------------------------ claims

Ok200 == [kind |-> "response", status |-> StatusOK]
Got429 == [kind |-> "response", status |-> StatusRateLimit]

\* The location ids update_devices has to ask for: the non-empty ones, in order.
IdsToAsk(locs) ==
    LET named == SelectSeq(locs, LAMBDA l : ~NotLocationId(l.location_id))
    IN [i \in 1..Len(named) |-> named[i].location_id]

\* C1 as stated: a _request call with the default budget whose data requests
\* all time out (every token acquisition succeeding) raises AirthingsError
\* after exactly 3 data requests.
C1_RaisesAfterThree ==
    \A t \in SeqTasks :
        LET o == obs[t]
        IN (/\ o.budget = DefaultRetry
            /\ o.reqResult \in {"response", "AirthingsError"}
            /\ o.dataSent > 0
            /\ o.timeouts = o.dataSent)
           => (o.reqResult = "AirthingsError" /\ o.dataSent = 3)

\* C1 amended: such a call raises AirthingsError after exactly 4 data
\* requests, the first attempt and its 3 retries, and never sends a fifth.
C1_RaisesAfterFour ==
    \A t \in SeqTasks :
        LET o == obs[t]
        IN /\ (o.budget = DefaultRetry => o.dataSent <= 4)
           /\ (/\ o.budget = DefaultRetry
               /\ o.reqResult \in {"response", "AirthingsError"}
               /\ o.dataSent > 0
               /\ o.timeouts = o.dataSent)
              => (o.reqResult = "AirthingsError" /\ o.dataSent = 4)

\* A default-budget call has ended with every one of its data requests timed out.
C1_Witness ==
    \E t \in SeqTasks :
        /\ obs[t].budget = DefaultRetry
        /\ obs[t].reqResult = "AirthingsError"
        /\ obs[t].dataSent > 0
        /\ obs[t].timeouts = obs[t].dataSent

\* C2: a sample entry whose id is missing from self._devices never makes
\* update_devices raise, and the returned mapping holds a Device for it
\* whose device_type and product_name are None.
C2_DescriptorMissTolerated ==
    \A t \in SeqTasks :
        LET o == obs[t]
        IN o.missed # {}
           => /\ o.result # "AttributeError"
              /\ o.result = "returned"
                 => \A d \in o.missed :
                       /\ d \in DOMAIN call[t].res
                       /\ call[t].res[d].device_type = None
                       /\ call[t].res[d].product_name = None

\* C3 as stated: an update_devices call that follows one which returned
\* requests neither the locations nor the devices, whatever was returned.
C3_NoFetchAfterReturn ==
    \A t \in SeqTasks :
        obs[t].prevReturned => (obs[t].locFetches = 0 /\ obs[t].devFetches = 0)

\* C3 amended: an update_devices call that begins with a non-empty cached
\* list does not request it (so a call following one that returned and left
\* both lists non-empty requests neither); one that begins with an empty
\* list and returns has requested that list through exactly one _request call.
C3_PopulateOnceWhenNonEmpty ==
    \A t \in SeqTasks :
        LET o == obs[t]
        IN /\ (~o.startLocEmpty => o.locFetches = 0)
           /\ (~o.startDevEmpty => o.devFetches = 0)
           /\ (o.result = "returned" /\ o.startLocEmpty => o.locFetches = 1)
           /\ (o.result = "returned" /\ o.startDevEmpty => o.devFetches = 1)

\* The second of two update_devices calls has returned, the first having
\* returned and left both lists non-empty.
C3_Witness ==
    \E t \in SeqTasks :
        /\ obs[t].prevReturned
        /\ ~obs[t].startLocEmpty
        /\ ~obs[t].startDevEmpty
        /\ obs[t].result = "returned"

\* C4: update_devices returns a mapping or raises AirthingsError,
\* AirthingsConnectionError or AirthingsAuthError, and nothing else.
C4_OnlyDeclaredErrors ==
    \A t \in SeqTasks :
        obs[t].result \in {"none", "pending", "returned", "AirthingsError",
                           "AirthingsConnectionError", "AirthingsAuthError"}

\* C5: a _request call that began with a cached token, whose first data
\* request got a status other than 200 and 429 and whose second got 200,
\* returns that response after exactly two data requests and exactly one
\* get_token call, the second request carrying the token get_token returned.
C5_RetryThenSucceed ==
    \A t \in SeqTasks :
        LET o == obs[t]
        IN (o.startCached /\ o.rejects = 1 /\ o.timeouts = 0 /\ o.lastData = Ok200)
           => /\ o.reqResult = "response"
              /\ o.dataSent = 2
              /\ o.tokenCalls = 1
              /\ o.tokResult = "returned"
              /\ o.issued \in Tokens
              /\ call[t].hdr = o.issued
              /\ access_token = o.issued

\* Such a call has returned.
C5_Witness ==
    \E t \in SeqTasks :
        /\ obs[t].startCached
        /\ obs[t].rejects = 1
        /\ obs[t].timeouts = 0
        /\ obs[t].lastData = Ok200
        /\ obs[t].reqResult = "response"

\* C6: once a data request got 429, the _request call has raised
\* AirthingsError with no data or token request sent after it and the cached
\* token still the one that request carried, whatever budget remained.
C6_RateLimitShortCircuit ==
    \A t \in SeqTasks :
        LET o == obs[t]
        IN o.lastData = Got429
           => /\ call[t].pc = "idle"
              /\ o.reqResult = "AirthingsError"
              /\ o.dataSent = o.timeouts + o.rejects + 1
              /\ o.tokenCalls = o.timeouts + o.rejects + (IF o.startCached THEN 0 ELSE 1)
              /\ o.tokResult # "pending"
              /\ access_token = call[t].hdr
              /\ access_token \in Tokens

\* A 429 arrived at the first attempt of a call with the full budget.
C6_Witness ==
    \E t \in SeqTasks :
        /\ obs[t].lastData = Got429
        /\ obs[t].budget = DefaultRetry
        /\ call[t].retry = DefaultRetry

\* C7 as stated: over consecutive _request calls that each get 200 at their
\* first data request, the token endpoint is requested at most once, by the
\* first call and only when no token was cached; later calls send the same
\* token and leave it unchanged.
C7_OneTokenRequest ==
    \A t \in SeqTasks :
        LET o == obs[t]
        IN (o.reqResult = "response" /\ o.dataSent = 1)
           => /\ o.tokenPosts <= 1
              /\ (o.startCached => o.tokenPosts = 0)
              /\ o.prevReq.firstOk
                 => /\ o.tokenPosts = 0
                    /\ call[t].hdr = o.prevReq.token
                    /\ access_token = o.prevReq.token

\* C7 amended: get_token is called at most once, by the first call and only
\* when no token was cached, and that call sends at most 4 token requests
\* (its own retries); later calls call neither get_token nor the token
\* endpoint, send the same token and leave it unchanged.
C7_TokenReuse ==
    \A t \in SeqTasks :
        LET o == obs[t]
        IN (o.reqResult = "response" /\ o.dataSent = 1)
           => /\ o.tokenCalls <= 1
              /\ o.tokenPosts <= 4
              /\ (o.startCached => o.tokenCalls = 0 /\ o.tokenPosts = 0)
              /\ o.prevReq.firstOk
                 => /\ o.tokenCalls = 0
                    /\ o.tokenPosts = 0
                    /\ call[t].hdr = o.prevReq.token
                    /\ access_token = o.prevReq.token

\* Two consecutive calls have each got 200 at their first data request.
C7_Witness ==
    \E t \in SeqTasks :
        /\ obs[t].prevReq.firstOk
        /\ obs[t].reqResult = "response"
        /\ obs[t].dataSent = 1

\* C8: when the samples request of some location gave None or a null body
\* and no request raised, update_devices returns, its mapping holds exactly
\* the devices the other locations reported, and every location with an id
\* was asked, those after the failed one included.
C8_FaultIsolation ==
    \A t \in SeqTasks :
        LET o == obs[t]
        IN (o.failed # {} /\ o.result \in {"returned", "AttributeError"})
           => /\ o.result = "returned"
              /\ DOMAIN call[t].res = o.reported
              /\ o.asked = IdsToAsk(call[t].iter)

\* C8 but for the descriptor miss of C2: update_devices raises after a
\* failed location only on a reported id missing from self._devices.
C8_HoldsButForDescriptorMiss ==
    \A t \in SeqTasks :
        LET o == obs[t]
        IN o.failed # {}
           => /\ o.result = "AttributeError" => o.missed # {}
              /\ o.result = "returned"
                 => /\ DOMAIN call[t].res = o.reported
                    /\ o.asked = IdsToAsk(call[t].iter)

\* C9: once the token endpoint answered with a status other than 200,
\* get_token has raised AirthingsAuthError and sent no token request after
\* it, whatever budget remained and however many attempts failed before.
C9_RejectionNeverRetried ==
    \A t \in SeqTasks :
        LET o == obs[t]
        IN (o.lastTok.kind = "response" /\ o.lastTok.status # StatusOK)
           => /\ o.tokResult = "AirthingsAuthError"
              /\ o.reqResult = "AirthingsAuthError"
              /\ call[t].pc = "idle"
              /\ o.tokenPosts = o.tokFails + 1

\* The token endpoint rejected an attempt made after an earlier one failed,
\* with budget remaining.
C9_Witness ==
    \E t \in SeqTasks :
        /\ obs[t].lastTok.kind = "response"
        /\ obs[t].lastTok.status # StatusOK
        /\ obs[t].tokFails > 0
        /\ call[t].tretry > 0

\* C10: a get_token call sends at most 4 token requests; while it runs every
\* answered one has failed by transport error or timeout; it raises
\* AirthingsConnectionError exactly when all 4 failed so, and otherwise ends
\* at the first request that got an HTTP response.
C10_TokenRetryBound ==
    \A t \in SeqTasks :
        LET o == obs[t]
        IN /\ o.tokenPosts <= 4
           /\ (o.tokResult = "pending" => o.tokFails = o.tokenPosts - 1)
           /\ (o.tokResult = "AirthingsConnectionError"
                 <=> (o.tokResult \in {"returned", "AirthingsAuthError",
                                       "AirthingsConnectionError"}
                      /\ o.tokFails = o.tokenPosts))
           /\ (o.tokResult = "AirthingsConnectionError" => o.tokenPosts = 4)
           /\ (o.tokResult \in {"returned", "AirthingsAuthError"}
                 => o.tokFails = o.tokenPosts - 1 /\ o.lastTok.kind = "response")

\* get_token gave up after failures of both kinds.
C10_Witness ==
    \E t \in SeqTasks :
        /\ obs[t].tokResult = "AirthingsConnectionError"
        /\ obs[t].tokKinds = {"ClientError", "Timeout"}

\* C11 as stated: when a _request call has raised AirthingsError on anything
\* but a 429 (a status other than 200 with the budget exhausted, a transport
\* error, a timeout with the budget exhausted), the cached token is None.
C11_ClearedOnEveryFailure ==
    \A t \in SeqTasks :
        LET o == obs[t]
        IN (o.reqResult = "AirthingsError" /\ o.lastData # Got429)
           => access_token = None

\* C11 amended: the cached token is None when the call raised on a transport
\* error or on a timeout with the budget exhausted; when it raised on a
\* status other than 200 (429 or not) the cached token is still the one
\* that request carried.
C11_ClearedOnErrorAndTimeout ==
    \A t \in SeqTasks :
        LET o == obs[t]
        IN o.reqResult = "AirthingsError"
           => /\ (o.lastData.kind \in {"ClientError", "Timeout"} => access_token = None)
              /\ (o.lastData.kind = "Timeout" => call[t].retry = 0)
              /\ (o.lastData.kind = "response"
                    => /\ access_token = call[t].hdr
                       /\ access_token \in Tokens
                       /\ (o.lastData # Got429 => call[t].retry = 0))

\* A call with the full budget has raised on a status other than 200 and
\* 429, the budget exhausted by rejections and timeouts.
C11_Witness ==
    \E t \in SeqTasks :
        /\ obs[t].reqResult = "AirthingsError"
        /\ obs[t].budget = DefaultRetry
        /\ obs[t].lastData.kind = "response"
        /\ obs[t].lastData # Got429
        /\ obs[t].timeouts > 0

\* C12: once a data request failed with a transport error, the _request
\* call has raised AirthingsError with the cached token None and no data or
\* token request sent after it, whatever budget remained.
C12_TransportErrorNotRetried ==
    \A t \in SeqTasks :
        LET o == obs[t]
        IN o.lastData.kind = "ClientError"
           => /\ call[t].pc = "idle"
              /\ o.reqResult = "AirthingsError"
              /\ access_token = None
              /\ o.dataSent = o.timeouts + o.rejects + 1
              /\ o.tokenCalls = o.timeouts + o.rejects + (IF o.startCached THEN 0 ELSE 1)
              /\ o.tokResult # "pending"

\* A transport error arrived at a retry of a call, budget still remaining.
C12_Witness ==
    \E t \in SeqTasks :
        /\ obs[t].lastData.kind = "ClientError"
        /\ obs[t].rejects > 0
        /\ call[t].retry > 0

\* The network operations a running _request call can still make at most:
\* per remaining attempt one get_token call of up to 4 token requests and
\* one data request.
C13_StepsLeft(c) ==
    IF c.pc = "L127" THEN 6 * c.retry + 6
    ELSE IF c.pc = "L172" THEN 6 * c.retry + c.tretry + 2
    ELSE IF c.pc = "L136" THEN 6 * c.retry + 1
    ELSE 0

\* The count of a _request call with budget r: at most r + 1 data
\* requests, rejections and timeouts drawing on the one budget, and one
\* get_token call before each data request but a first one sent with a
\* cached token.
C13_Accounting ==
    \A t \in SeqTasks :
        LET o == obs[t]
            c == call[t]
        IN o.reqResult # "none"
           => /\ o.dataSent <= o.budget + 1
              /\ o.timeouts + o.rejects <= o.dataSent
              /\ c.retry >= 0
              /\ c.retry >= o.budget - o.dataSent
              /\ (c.pc = "L127"
                    => /\ o.dataSent = o.timeouts + o.rejects
                       /\ c.retry = o.budget - o.dataSent)
              /\ (c.pc = "L172"
                    => /\ o.dataSent = o.timeouts + o.rejects
                       /\ c.retry = o.budget - o.dataSent
                       /\ o.tokenCalls = o.dataSent + (IF o.startCached THEN 0 ELSE 1))
              /\ (c.pc = "L136"
                    => /\ o.dataSent = o.timeouts + o.rejects + 1
                       /\ c.retry = o.budget - o.dataSent + 1
                       /\ o.tokenCalls = o.dataSent - (IF o.startCached THEN 1 ELSE 0))
              /\ (o.reqResult = "pending" <=> c.pc # "idle")

\* C13: every step of a running _request call with budget r lowers the
\* number of network operations it can still make, so it ends after
\* finitely many; it sends at most r + 1 data requests whatever mix of
\* rejections and timeouts it meets, and each retry makes exactly one new
\* get_token call before its data request.
C13_BoundedAttempts ==
    [][ /\ C13_Accounting'
        /\ \A t \in SeqTasks :
              call[t].pc # "idle"
              => C13_StepsLeft(call'[t]) < C13_StepsLeft(call[t]) ]_vars

\* A call with the full budget has ended after 4 data requests, having met
\* both rejections and timeouts.
C13_Witness ==
    \E t \in SeqTasks :
        /\ obs[t].budget = DefaultRetry
        /\ obs[t].reqResult \in {"response", "AirthingsError"}
        /\ obs[t].dataSent = DefaultRetry + 1
        /\ obs[t].timeouts > 0
        /\ obs[t].rejects > 0

\* C14: once get_token, called because no token was cached, returned no
\* token, the _request call has returned None without raising and without
\* a data request after it, at a first attempt or at a retry, and the
\* cached token is None, so that the next call asks the token endpoint again.
C14_NoTokenNoRequest ==
    \A t \in SeqTasks :
        LET o == obs[t]
        IN /\ (o.tokResult = "returned" /\ o.issued = None)
              => /\ o.reqResult = "null"
                 /\ call[t].pc = "idle"
                 /\ call[t].response.isNone
                 /\ access_token = None
                 /\ o.dataSent = o.timeouts + o.rejects
                 /\ o.lastTok = Ok200
           /\ o.reqResult = "null" => (o.tokResult = "returned" /\ o.issued = None)

\* get_token returned no token at a retry, after a data request of the
\* call had failed.
C14_Witness ==
    \E t \in SeqTasks :
        /\ obs[t].reqResult = "null"
        /\ obs[t].dataSent > 0
        /\ obs[t].startCached

RequestErrors == {"AirthingsError", "AirthingsConnectionError", "AirthingsAuthError"}

\* C15: the step at which a request of an update_devices call raises ends
\* that call with the same error and no mapping returned, whatever it had
\* collected; and the only step after a call that raised is the caller's
\* next update_devices call, so the call that raised sends nothing more.
C15_ErrorsAbort ==
    [][ \A t \in SeqTasks :
          /\ (obs[t].reqResult = "pending" /\ obs'[t].reqResult \in RequestErrors)
             => /\ obs'[t].result = obs'[t].reqResult
                /\ call'[t].pc = "idle"
                /\ obs'[t].asked = obs[t].asked
                /\ obs'[t].locFetches = obs[t].locFetches
                /\ obs'[t].devFetches = obs[t].devFetches
          /\ obs[t].result \in RequestErrors
             => /\ call[t].pc = "idle"
                /\ call'[t].pc = "L89"
                /\ obs'[t].result = "pending"
                /\ obs'[t].asked = <<>> ]_vars

\* A latest-samples request has raised after an earlier location's devices
\* were collected.
C15_Witness ==
    \E t \in SeqTasks :
        /\ obs[t].result \in RequestErrors
        /\ obs[t].reqResult = obs[t].result
        /\ Len(obs[t].asked) = 2
        /\ DOMAIN call[t].res # {}

\* A request of the call is awaiting its answer, or about to be sent.
InRequest(c) == c.pc \in {"L127", "L172", "L136"}

\* Where an update_devices call stands among its requests: the devices are
\* fetched after the locations, the samples after both, and the samples
\* requests made so far are those of the locations up to the current one
\* that have an id, in the order of self._locations, one each.
C16_Order ==
    \A t \in SeqTasks :
        LET o == obs[t]
            c == call[t]
            inLoop == c.pc \in {"L102", "L108"} \/ (InRequest(c) /\ c.url = "samples")
            done == IF c.pc = "L102" THEN c.li - 1 ELSE c.li
        IN /\ (InRequest(c) <=> o.reqResult = "pending")
           /\ (o.devFetches > 0 \/ o.asked # <<>> \/ inLoop)
              => /\ (o.startLocEmpty => o.locFetches = 1)
                 /\ ~(InRequest(c) /\ c.url = "locations")
           /\ (o.asked # <<>> \/ inLoop)
              => /\ (o.startDevEmpty => o.devFetches = 1)
                 /\ ~(InRequest(c) /\ c.url = "devices")
           /\ inLoop
              => /\ c.iter = locations
                 /\ o.asked = IdsToAsk(SubSeq(c.iter, 1, done))
           /\ o.result = "returned" => o.asked = IdsToAsk(locations)

\* C16: within one update_devices call a request is made only when the one
\* before has ended (at most one is outstanding), no latest-samples request
\* is made before the locations and devices fetches of that call have
\* ended, and the latest-samples requests follow the order of
\* self._locations, at most one _request call per location.
C16_SequentialOrdering ==
    [][ /\ C16_Order'
        /\ \A t \in SeqTasks :
              (\/ obs'[t].locFetches > obs[t].locFetches
               \/ obs'[t].devFetches > obs[t].devFetches
               \/ Len(obs'[t].asked) > Len(obs[t].asked))
              => /\ ~InRequest(call[t])
                 /\ obs[t].reqResult # "pending"
                 /\ InRequest(call'[t]) ]_vars

\* The samples of the second of two locations are being requested in a call
\* that fetched both the locations and the devices.
C16_Witness ==
    \E t \in SeqTasks :
        /\ call[t].pc = "L136"
        /\ call[t].url = "samples"
        /\ Len(obs[t].asked) = 2
        /\ obs[t].locFetches = 1
        /\ obs[t].devFetches = 1

\* C17: the mapping update_devices returns has one entry per reported
\* device id and no other, keyed by the id of its Device; an id reported by
\* several locations has the entry built from the last of them in the order
\* of self._locations; nothing of the mapping returned before is kept.
C17_OneEntryLastWins ==
    \A t \in SeqTasks :
        LET o == obs[t]
            res == call[t].res
        IN o.result = "returned"
           => /\ DOMAIN res = o.reported
              /\ DOMAIN res = DOMAIN o.lastFrom
              /\ \A d \in DOMAIN res :
                    /\ res[d].device_id = d
                    /\ res[d].location_name = o.lastFrom[d]
                    /\ \E i \in 1..Len(call[t].iter) :
                          call[t].iter[i].name = res[d].location_name
              /\ o.twice \subseteq DOMAIN res

\* An update has returned a mapping with an id that two locations reported
\* and without an id that the update before had returned.
C17_Witness ==
    \E t \in SeqTasks :
        /\ obs[t].result = "returned"
        /\ obs[t].twice # {}
        /\ obs[t].prevIds \ DOMAIN call[t].res # {}

\* The loop is at a location of self._locations whose id is empty.
AtEmptyLocation(c) ==
    /\ c.pc = "L102"
    /\ c.li <= Len(c.iter)
    /\ c.iter[c.li].location_id = ""

\* C18: at a location whose id is empty update_devices only moves on to the
\* next location: it starts no request (so no data and no token request),
\* changes neither the mapping nor the cached token; no samples request
\* ever names an empty id, no entry of the mapping comes from such a
\* location, and a call that returns has asked every location with an id,
\* those after the empty one included.
C18_EmptyIdSkipped ==
    [][ \A t \in SeqTasks :
          /\ AtEmptyLocation(call[t])
             => /\ call'[t] = [call[t] EXCEPT !.li = call[t].li + 1]
                /\ obs'[t] = obs[t]
                /\ access_token' = access_token
          /\ \A i \in 1..Len(obs'[t].asked) : obs'[t].asked[i] # ""
          /\ obs'[t].result = "returned"
             => /\ obs'[t].asked = IdsToAsk(call'[t].iter)
                /\ \A d \in DOMAIN call'[t].res :
                      \A i \in 1..Len(call'[t].iter) :
                          call'[t].iter[i].location_id = ""
                          => call'[t].res[d].location_name # call'[t].iter[i].name ]_vars

\* An update has returned devices of a location that comes after one with
\* an empty id.
C18_Witness ==
    \E t \in SeqTasks :
        /\ obs[t].result = "returned"
        /\ Len(call[t].iter) = 2
        /\ call[t].iter[1].location_id = ""
        /\ obs[t].asked = <<call[t].iter[2].location_id>>
        /\ DOMAIN call[t].res # {}

\* C19: with two update_devices calls interleaved at the awaits and every
\* network operation succeeding, nothing keeps the locations, the devices or
\* the token endpoint from being requested once by each call (the state of
\* C19_Witness); what does hold is that a call requests each at most once,
\* the locations exactly when self._locations was empty as it began, and
\* that no call raises.
C19_DuplicatesOnlyPerCall ==
    \A t \in Tasks :
        LET o == obs[t]
        IN /\ o.locFetches <= 1
           /\ o.devFetches <= 1
           /\ o.tokenCalls <= 1
           /\ Cardinality(o.granted) <= 1
           /\ (o.locFetches = 1 => o.startLocEmpty)
           /\ (o.result = "returned" /\ o.startLocEmpty => o.locFetches = 1)
           /\ o.result \in {"none", "pending", "returned"}

\* Both calls have returned, each having requested the locations, the
\* devices and a token, with no request failed.
C19_Witness ==
    /\ \A t \in Tasks :
          /\ obs[t].result = "returned"
          /\ obs[t].locFetches = 1
          /\ obs[t].devFetches = 1
          /\ obs[t].granted # {}
    /\ locations # <<>>
    /\ devices # EmptyMap

\* C20: a data request awaiting its answer carries an Authorization value
\* that is a token, one that get_token has returned to some caller, also
\* while another _request call has cleared or replaced the cached token.
C20_AuthorizationIsGranted ==
    \A t \in Tasks :
        call[t].pc = "L136"
        => /\ call[t].hdr # None
           /\ call[t].hdr \in UNION { obs[u].granted : u \in Tasks }

\* A request carrying a token is awaiting its answer while the other call,
\* its own request having failed, has cleared the cached token and is
\* acquiring another one.
C20_Witness ==
    \E t, u \in Tasks :
        /\ t # u
        /\ call[t].pc = "L136"
        /\ call[t].hdr \in Tokens
        /\ access_token = None
        /\ call[u].pc = "L172"
        /\ call[u].retry < MaxConcurrentRetry

====
